---- MODULE Spec2Model ----
(***************************************************************************)
(* render-deploy: a command line client that resolves a service by name,   *)
(* triggers a deploy and, with --wait, polls the deploy until it reaches a *)
(* terminal status or the timeout elapses (src/src/main.rs).               *)
(*                                                                         *)
(* Time is counted in whole seconds, from the moment the trigger request   *)
(* is sent: the program reads the clock for the first time after it.  The  *)
(* remote platform and the wall clock are the environment: every response  *)
(* and every delay is drawn from a small set.                              *)
(***************************************************************************)
EXTENDS Integers, Sequences, FiniteSets, TLC

(***************************************************************************)
(* Bounds of the environment.                                              *)
(***************************************************************************)
\* largest --timeout value tried (seconds)
MaxTimeout == 10
\* longest time one HTTP request takes (seconds)
MaxReqDelay == 1
\* longest time by which a sleep overshoots the poll interval (seconds)
MaxOversleep == 1
\* most outbound operations (requests and sleeps) of one run
MaxOps == 10

(***************************************************************************)
(* Program constants.                                                      *)
(***************************************************************************)
\* sleep(Duration::from_secs(5))
PollInterval == 5

\* exit status of a Rust process whose main thread panics: 101 when the
\* panic unwinds, 134 (SIGABRT) when the build aborts on panic
PanicCodes == {101, 134}

\* exit_code of a process that is still running
Running == 0 - 1

(***************************************************************************)
(* Command line (struct Config), as Config::parse() returns it: timeout is *)
(* the parsed duration in whole seconds.                                   *)
(***************************************************************************)
None == [some |-> FALSE, v |-> ""]
Some(x) == [some |-> TRUE, v |-> x]

CommitArgs == {None, Some("c1"), Some("c2")}
Timeouts == {0, 3, PollInterval, MaxTimeout}

Config == [commit : CommitArgs, wait : BOOLEAN, timeout : Timeouts]

(***************************************************************************)
(* Data model.                                                             *)
(***************************************************************************)
DeployStatus == {"Created", "BuildInProgress", "UpdateInProgress", "Live",
                 "Deactivated", "BuildFailed", "UpdateFailed", "Canceled",
                 "PreDeployInProgress", "PreDeployFailed"}

\* #[serde(rename_all = "snake_case")]: the wire name of each variant
SnakeCase == [s \in DeployStatus |->
                CASE s = "Created" -> "created"
                  [] s = "BuildInProgress" -> "build_in_progress"
                  [] s = "UpdateInProgress" -> "update_in_progress"
                  [] s = "Live" -> "live"
                  [] s = "Deactivated" -> "deactivated"
                  [] s = "BuildFailed" -> "build_failed"
                  [] s = "UpdateFailed" -> "update_failed"
                  [] s = "Canceled" -> "canceled"
                  [] s = "PreDeployInProgress" -> "pre_deploy_in_progress"
                  [] s = "PreDeployFailed" -> "pre_deploy_failed"]

Err == [ok |-> FALSE]
Ok(x) == [ok |-> TRUE, val |-> x]

\* a catch-all variant: an unknown wire name becomes Created
DeserializeStatusDefault(str) ==
    IF \E s \in DeployStatus : SnakeCase[s] = str
    THEN Ok(CHOOSE s \in DeployStatus : SnakeCase[s] = str)
    ELSE Ok("Created")

\* deserialization of the status field: a wire name that is the snake_case
\* name of no variant is an error
DeserializeStatus(str) ==
    IF \E s \in DeployStatus : SnakeCase[s] = str
    THEN Ok(CHOOSE s \in DeployStatus : SnakeCase[s] = str)
    ELSE Err

\* every token but "yes" is false
deserialize_yes_no_default(s) ==
    CASE s = "yes" -> Ok(TRUE)
      [] OTHER -> Ok(FALSE)

deserialize_yes_no(s) ==
    CASE s = "yes" -> Ok(TRUE)
      [] s = "no" -> Ok(FALSE)
      [] OTHER -> Err

(***************************************************************************)
(* What the platform can answer.                                           *)
(***************************************************************************)
DeployIds == {"dep-1", "dep-2"}
StatusStrings == {SnakeCase[s] : s \in DeployStatus} \cup {"queued"}

JsonNull == [t |-> "null", v |-> ""]
JsonString(x) == [t |-> "string", v |-> x]

Garbage == [kind |-> "garbage"]

ServicePayloads ==
    {[id |-> "srv-1", autoDeploy |-> "yes"],
     [id |-> "srv-2", autoDeploy |-> "no"],
     [id |-> "srv-2", autoDeploy |-> "maybe"]}

CommitIds == {"b2be9cf", "77aa01c"}

\* the JSON object of a deploy; commit is the embedded CommitInfo
DeployPayload(id, commit_id, status, finishedAt) ==
    [kind |-> "deploy", id |-> id, commit |-> [id |-> commit_id],
     status |-> status, finishedAt |-> finishedAt]

\* the same object with a field struct Deploy does not have
WithTrigger(p) == p @@ [trigger |-> "api"]

\* the bodies of GET .../deploys/<id>
StatusBodies ==
    {DeployPayload(id, "b2be9cf", st, JsonNull) : id \in DeployIds, st \in StatusStrings}
    \cup {WithTrigger(DeployPayload("dep-1", "b2be9cf", "live", JsonString("t1")))}
    \cup {Garbage}

\* the bodies of POST .../deploys
CreatedBodies ==
    {DeployPayload("dep-1", "b2be9cf", "created", JsonNull),
     WithTrigger(DeployPayload("dep-2", "77aa01c", "build_in_progress", JsonNull)),
     DeployPayload("dep-2", "77aa01c", "queued", JsonNull),
     Garbage}

\* the bodies of GET .../deploys?limit=1
DeployListBodies ==
    {[kind |-> "list", items |-> <<>>],
     [kind |-> "list", items |-> <<DeployPayload("dep-1", "b2be9cf", "live", JsonString("t0"))>>],
     [kind |-> "list", items |-> <<DeployPayload("dep-2", "77aa01c", "build_failed", JsonNull)>>],
     [kind |-> "list", items |-> <<DeployPayload("dep-2", "77aa01c", "queued", JsonNull)>>],
     Garbage}

\* the bodies of GET /v1/services?name=..&limit=1
ServiceListBodies ==
    {[kind |-> "list", items |-> <<>>]}
    \cup {[kind |-> "list", items |-> <<p>>] : p \in ServicePayloads}
    \cup {Garbage}

SuccessCodes == {200, 201}
ErrorCodes == {404, 500}

NetError == [net |-> "err", http |-> 0, body |-> Garbage]

Responses(bodies) ==
    {NetError}
    \cup {[net |-> "ok", http |-> h, body |-> b] : h \in SuccessCodes, b \in bodies}
    \cup {[net |-> "ok", http |-> h, body |-> Garbage] : h \in ErrorCodes}

ReqDelays == {0, MaxReqDelay}
\* a sleep of one second
SleepDurationsShort == {1}

\* a sleep that takes no time (a duration in the wrong unit)
SleepDurationsNone == {0}

SleepDurations == {PollInterval, PollInterval + MaxOversleep}

\* reqwest StatusCode::is_success
is_success(http) == http >= 200 /\ http < 300

(***************************************************************************)
(* serde_json::from_str for the response types.                            *)
(***************************************************************************)
NoService == [id |-> "", auto_deploy |-> FALSE]
NoDeploy == [id |-> "", commit |-> [id |-> ""], status |-> "Created", finished_at |-> None]

\* struct Service
ParseService(p) ==
    LET ad == deserialize_yes_no(p.autoDeploy)
    IN  IF ad.ok THEN Ok([id |-> p.id, auto_deploy |-> ad.val]) ELSE Err

\* finished_at a String with a default instead of an Option<String>
ParseDeployEmptyFinished(body) ==
    IF body.kind # "deploy" THEN Err
    ELSE LET st == DeserializeStatus(body.status)
         IN  IF ~st.ok THEN Err
             ELSE Ok([id |-> body.id,
                      commit |-> [id |-> body.commit.id],
                      status |-> st.val,
                      finished_at |-> IF body.finishedAt.t = "null"
                                      THEN Some("")
                                      ELSE Some(body.finishedAt.v)])

\* struct Deploy; a field of the object the struct does not have is skipped
ParseDeploy(body) ==
    IF body.kind # "deploy" THEN Err
    ELSE LET st == DeserializeStatus(body.status)
         IN  IF ~st.ok THEN Err
             ELSE Ok([id |-> body.id,
                      commit |-> [id |-> body.commit.id],
                      status |-> st.val,
                      finished_at |-> IF body.finishedAt.t = "null"
                                      THEN None
                                      ELSE Some(body.finishedAt.v)])

\* Vec<ListServiceResponse>
ParseServiceList(body) ==
    IF body.kind # "list" THEN Err
    ELSE IF \E i \in 1..Len(body.items) : ~ParseService(body.items[i]).ok THEN Err
    ELSE Ok([i \in 1..Len(body.items) |-> ParseService(body.items[i]).val])

\* Vec<ListDeploysResponse>
ParseDeployList(body) ==
    IF body.kind # "list" THEN Err
    ELSE IF \E i \in 1..Len(body.items) : ~ParseDeploy(body.items[i]).ok THEN Err
    ELSE Ok([i \in 1..Len(body.items) |-> ParseDeploy(body.items[i]).val])

(***************************************************************************)
(* The four request functions.  Each yields what the call does to the      *)
(* process: it panics, it calls exit(code), or it returns a value.         *)
(***************************************************************************)
Panic(msg) == [tag |-> "panic", diag |-> msg]
Exit(msg) == [tag |-> "exit", diag |-> msg]
Return(x) == [tag |-> "return", val |-> x]

\* Option<T> of the first element of a list
First(list) == IF Len(list) = 0 THEN [some |-> FALSE] ELSE [some |-> TRUE, v |-> list[1]]

\* indexes the first service instead of asking for it
list_service_indexed(resp) ==
    IF resp.net # "ok" THEN Panic("Could not build request")
    ELSE IF ~is_success(resp.http) THEN Exit("Request Error")
    ELSE LET services == ParseServiceList(resp.body)
         IN  IF ~services.ok THEN Exit("Unable to parse json")
             ELSE IF Len(services.val) = 0 THEN Panic("index out of bounds")
             ELSE Return(First(services.val))

list_service(resp) ==
    IF resp.net # "ok" THEN Panic("Could not build request")
    ELSE IF ~is_success(resp.http) THEN Exit("Request Error")
    ELSE LET services == ParseServiceList(resp.body)
         IN  IF ~services.ok THEN Exit("Unable to parse json")
             ELSE Return(First(services.val))

\* a latest-deploy lookup that fails is taken for "no previous deploy"
latest_deploy_lenient(resp) ==
    IF resp.net # "ok" THEN Panic("Could not build request")
    ELSE IF ~is_success(resp.http) THEN Return([some |-> FALSE])
    ELSE LET deploys == ParseDeployList(resp.body)
         IN  IF ~deploys.ok THEN Return([some |-> FALSE])
             ELSE Return(First(deploys.val))

latest_deploy(resp) ==
    IF resp.net # "ok" THEN Panic("Could not build request")
    ELSE IF ~is_success(resp.http) THEN Exit("Request Error")
    ELSE LET deploys == ParseDeployList(resp.body)
         IN  IF ~deploys.ok THEN Exit("Unable to parse json")
             ELSE Return(First(deploys.val))

\* returns Result<Deploy, String>
trigger_deploy(resp) ==
    IF resp.net # "ok" THEN Panic("Could not build request")
    ELSE IF ~is_success(resp.http) THEN Exit("Request Error")
    ELSE LET d == ParseDeploy(resp.body)
         IN  IF ~d.ok THEN Return(Err) ELSE Return(Ok(d.val))

\* swallows a failed status check: answers a deploy still in progress
get_deploy_lenient(resp) ==
    IF resp.net # "ok" \/ ~is_success(resp.http) \/ ~ParseDeploy(resp.body).ok
    THEN Return([some |-> TRUE, v |-> NoDeploy])
    ELSE Return([some |-> TRUE, v |-> ParseDeploy(resp.body).val])

\* returns Option<Deploy>, always Some
get_deploy(resp) ==
    IF resp.net # "ok" THEN Panic("Could not build request")
    ELSE IF ~is_success(resp.http) THEN Exit("Request Error")
    ELSE LET d == ParseDeploy(resp.body)
         IN  IF ~d.ok THEN Exit("Unable to parse json")
             ELSE Return([some |-> TRUE, v |-> d.val])

(***************************************************************************)
(* The requests as they are put on the wire.                               *)
(***************************************************************************)
Request(method, endpoint, service_id, deploy_id, commit_id) ==
    [op |-> method, endpoint |-> endpoint, service_id |-> service_id,
     deploy_id |-> deploy_id, commit_id |-> commit_id]

ListServiceRequest == Request("GET", "services", "", "", None)
LatestDeployRequest(svc) == Request("GET", "deploys", svc.id, "", None)
\* the request has no body: "todo json post commitId if present"
TriggerDeployRequest(svc, cfg) == Request("POST", "deploys", svc.id, "", None)
\* the status request sent with the method of the trigger
GetDeployRequestPost(svc, deploy_id) == Request("POST", "deploy", svc.id, deploy_id, None)

GetDeployRequest(svc, deploy_id) == Request("GET", "deploy", svc.id, deploy_id, None)
SleepOp == Request("sleep", "", "", "", None)

\* what the platform did with a request: the transport failed, the HTTP
\* status was no success, the body does not fit the schema, the list asked
\* for is empty, or the answer is good.  parsed is the body read with the
\* schema of the endpoint, is_list tells that the schema is a list
Outcome(resp, parsed, is_list) ==
    CASE resp.net # "ok" -> "transport"
      [] resp.net = "ok" /\ ~(resp.http \in SuccessCodes) -> "http_status"
      [] resp.net = "ok" /\ resp.http \in SuccessCodes /\ ~parsed.ok -> "schema"
      [] OTHER -> IF is_list /\ Len(parsed.val) = 0 THEN "empty" ELSE "ok"

FailureOutcomes == {"transport", "http_status", "schema"}

\* the status string of the deploy object a response carries, "" when it
\* carries none
WireStatus(resp) ==
    IF resp.net = "ok" /\ resp.http \in SuccessCodes /\ resp.body.kind = "deploy"
    THEN resp.body.status ELSE ""

\* the autoDeploy token of the service a response carries, "" when it
\* carries none
WireToken(resp) ==
    IF resp.net = "ok" /\ resp.http \in SuccessCodes /\ resp.body.kind = "list"
       /\ Len(resp.body.items) > 0
    THEN resp.body.items[1].autoDeploy ELSE ""

\* the id of the service a response carries, "" when it carries none
WireServiceId(resp) ==
    IF resp.net = "ok" /\ resp.http \in SuccessCodes /\ resp.body.kind = "list"
       /\ Len(resp.body.items) > 0
    THEN resp.body.items[1].id ELSE ""

\* the id of the deploy object a response carries, "" when it carries none
WireDeployId(resp) ==
    IF resp.net = "ok" /\ resp.http \in SuccessCodes /\ resp.body.kind = "deploy"
    THEN resp.body.id ELSE ""

NoWire == [autoDeploy |-> "", service_id |-> "", deploy_id |-> "", status |-> ""]
NoPayload == Garbage

\* one outbound operation and what came of it
Entry(req, outcome) == [req |-> req, outcome |-> outcome]

(***************************************************************************)
(* The poll loop's match on deploy.status.                                 *)
(***************************************************************************)
LiveArm == {"Live"}
InProgressArm == {"BuildInProgress", "UpdateInProgress", "PreDeployInProgress", "Created"}
StoppedArm == {"BuildFailed", "UpdateFailed", "Canceled", "Deactivated", "PreDeployFailed"}

\* Canceled moved to the arm of the statuses still in progress
ClassifyCanceledPending(status) ==
    CASE status \in LiveArm -> "success"
      [] status \in InProgressArm \cup {"Canceled"} -> "in_progress"
      [] status \in StoppedArm -> "failure"

\* the arm taken: the first arm whose pattern matches
Classify(status) ==
    CASE status \in LiveArm -> "success"
      [] status \in InProgressArm -> "in_progress"
      [] status \in StoppedArm -> "failure"

\* the timeout fires as soon as it is reached
TimedOutInclusive(elapsed, timeout) == elapsed >= timeout

\* the timeout taken in another unit than the elapsed time
TimedOutMillis(elapsed, timeout) == elapsed > timeout * 1000

\* if start.elapsed() > config.timeout
TimedOut(elapsed, timeout) == elapsed > timeout

\* the fetched deploy replaces the one the trigger returned
NextDeployFetched(triggered, fetched_deploy) == fetched_deploy

\* `let deploy = get_deploy(..)` inside the loop body shadows the deploy of
\* the trigger for the rest of the iteration only: the next iteration reads
\* the id of the triggered deploy again
NextDeploy(triggered, fetched_deploy) == triggered

\* polls whatever the flag
ShouldPollAlways(cfg) == TRUE

\* if config.wait
ShouldPoll(cfg) == cfg.wait

VARIABLES
    config,          \* the parsed command line
    pc,              \* position of main
    service,         \* the resolved Service
    previous_deploy, \* Option<status> of the latest deploy before the trigger
    deploy,          \* the Deploy returned by the trigger
    now,             \* the wall clock
    start,           \* Instant taken at poll-loop entry
    log,             \* the outbound operations so far, with their outcome
    fetched,         \* the statuses returned by the status fetches so far
    branch,          \* the match arm taken for the last fetched status
    pstate,          \* state of the poller
    diag,            \* the diagnostic printed when the run ended
    exit_code,       \* the exit status of the process
    wire,            \* what the platform sent: the service's id and autoDeploy
                     \* token, the triggered deploy's id, the last status string
    payload,         \* tests::parse_deploy: the JSON sample
    parsed           \* tests::parse_deploy: the result of from_str, once run

vars == <<config, pc, service, previous_deploy, deploy, now, start, log,
          fetched, branch, pstate, diag, exit_code, wire, payload, parsed>>

\* the variables of the unit test, which main leaves alone
test_vars == <<payload, parsed>>

elapsed == now - start

Init ==
    /\ config \in Config
    /\ pc = "list_service"
    /\ service = NoService
    /\ previous_deploy = None
    /\ deploy = NoDeploy
    /\ now = 0
    /\ start = 0
    /\ log = <<>>
    /\ fetched = <<>>
    /\ branch = "none"
    /\ pstate = "Idle"
    /\ diag = ""
    /\ exit_code = Running
    /\ wire = NoWire
    /\ payload = NoPayload
    /\ parsed = <<>>

\* the process ends: exit(code), or a panic of the main thread
Terminate(codes, msg) ==
    /\ pc' = "done"
    /\ exit_code' \in codes
    /\ diag' = msg

\* the way a request function that did not return ends the process
Abort(r) ==
    IF r.tag = "panic" THEN Terminate(PanicCodes, r.diag) ELSE Terminate({1}, r.diag)

\* main, lines 309-337: resolve the service
ListService ==
    /\ pc = "list_service"
    /\ Len(log) < MaxOps
    /\ \E resp \in Responses(ServiceListBodies) :
         LET r == list_service(resp)
         IN  /\ log' = Append(log, Entry(ListServiceRequest,
                                         Outcome(resp, ParseServiceList(resp.body), TRUE)))
             /\ wire' = [wire EXCEPT !.autoDeploy = WireToken(resp),
                                     !.service_id = WireServiceId(resp)]
             /\ IF r.tag # "return"
                THEN Abort(r) /\ UNCHANGED service
                ELSE IF ~r.val.some
                THEN Terminate({1}, "Cannot find a service") /\ UNCHANGED service
                ELSE /\ service' = r.val.v
                     /\ pc' = "latest_deploy"
                     /\ UNCHANGED <<diag, exit_code>>
    /\ UNCHANGED <<config, previous_deploy, deploy, now, start, fetched, branch, pstate,
                   test_vars>>

\* main, lines 340-354: look up and print the previous deploy
LatestDeploy ==
    /\ pc = "latest_deploy"
    /\ Len(log) < MaxOps
    /\ \E resp \in Responses(DeployListBodies) :
         LET r == latest_deploy(resp)
         IN  /\ log' = Append(log, Entry(LatestDeployRequest(service),
                                         Outcome(resp, ParseDeployList(resp.body), TRUE)))
             /\ IF r.tag # "return"
                THEN Abort(r) /\ UNCHANGED previous_deploy
                ELSE /\ previous_deploy' = IF r.val.some THEN Some(r.val.v.status) ELSE None
                     /\ pc' = "trigger_deploy"
                     /\ UNCHANGED <<diag, exit_code>>
    /\ UNCHANGED <<config, service, deploy, now, start, fetched, branch, pstate, wire,
                   test_vars>>

\* main, lines 357-364: trigger the deploy and unwrap the result
TriggerDeploy ==
    /\ pc = "trigger_deploy"
    /\ Len(log) < MaxOps
    /\ \E resp \in Responses(CreatedBodies), d \in ReqDelays :
         LET r == trigger_deploy(resp)
         IN  /\ now' = now + d
             /\ log' = Append(log, Entry(TriggerDeployRequest(service, config),
                                         Outcome(resp, ParseDeploy(resp.body), FALSE)))
             /\ wire' = [wire EXCEPT !.status = WireStatus(resp),
                                     !.deploy_id = WireDeployId(resp)]
             /\ IF r.tag # "return"
                THEN Abort(r) /\ UNCHANGED deploy
                ELSE IF ~r.val.ok
                THEN Terminate(PanicCodes, "called Result::unwrap() on an Err value")
                     /\ UNCHANGED deploy
                ELSE /\ deploy' = r.val.val
                     /\ pc' = "wait"
                     /\ UNCHANGED <<diag, exit_code>>
    /\ UNCHANGED <<config, service, previous_deploy, start, fetched, branch, pstate,
                   test_vars>>

\* main, lines 368-369 and 405: enter the poll loop, or exit(0) without --wait
Wait ==
    /\ pc = "wait"
    /\ IF ShouldPoll(config)
       THEN /\ start' = now
            /\ pstate' = "Polling"
            /\ pc' = "loop"
            /\ UNCHANGED <<diag, exit_code>>
       ELSE /\ Terminate({0}, "")
            /\ UNCHANGED <<start, pstate>>
    /\ UNCHANGED <<config, service, previous_deploy, deploy, now, log, fetched, branch,
                   wire, test_vars>>

\* main, lines 371-374: the timeout test at loop entry; reading the clock
\* takes time as well
LoopEntry ==
    /\ pc = "loop"
    /\ \E d \in ReqDelays :
         /\ now' = now + d
         /\ IF TimedOut(now' - start, config.timeout)
            THEN /\ pstate' = "TimedOut"
                 /\ Terminate({1}, "Deploy timed out")
            ELSE /\ pc' = "sleep"
                 /\ UNCHANGED <<pstate, diag, exit_code>>
    /\ UNCHANGED <<config, service, previous_deploy, deploy, start, log, fetched, branch,
                   wire, test_vars>>

\* the loop without its sleep
SleepSkipped ==
    /\ pc = "sleep"
    /\ pc' = "get_deploy"
    /\ UNCHANGED <<config, service, previous_deploy, deploy, now, start, log, fetched,
                   branch, pstate, diag, exit_code, wire, test_vars>>

\* main, line 375
Sleep ==
    /\ pc = "sleep"
    /\ Len(log) < MaxOps
    /\ \E d \in SleepDurations : now' = now + d
    /\ log' = Append(log, Entry(SleepOp, "ok"))
    /\ pc' = "get_deploy"
    /\ UNCHANGED <<config, service, previous_deploy, deploy, start, fetched, branch,
                   pstate, diag, exit_code, wire, test_vars>>

\* the timeout tested again after the fetch, before the status is looked at
GetDeployTimeoutFirst ==
    /\ pc = "get_deploy"
    /\ Len(log) < MaxOps
    /\ \E resp \in Responses(StatusBodies), d \in ReqDelays :
         LET r == get_deploy(resp)
         IN  /\ now' = now + d
             /\ log' = Append(log, Entry(GetDeployRequest(service, deploy.id),
                                         Outcome(resp, ParseDeploy(resp.body), FALSE)))
             /\ wire' = [wire EXCEPT !.status = WireStatus(resp)]
             /\ IF r.tag # "return"
                THEN Abort(r) /\ UNCHANGED <<fetched, branch, pstate, deploy>>
                ELSE LET d2 == r.val.v
                         arm == Classify(d2.status)
                     IN  /\ fetched' = Append(fetched, d2.status)
                         /\ deploy' = NextDeploy(deploy, d2)
                         /\ branch' = arm
                         /\ CASE TimedOut(now' - start, config.timeout) ->
                                   /\ pstate' = "TimedOut"
                                   /\ Terminate({1}, "Deploy timed out")
                              [] ~TimedOut(now' - start, config.timeout) /\ arm = "success" ->
                                   /\ pstate' = "Succeeded"
                                   /\ Terminate({0}, "Deploy is live")
                              [] ~TimedOut(now' - start, config.timeout) /\ arm = "failure" ->
                                   /\ pstate' = "Failed"
                                   /\ Terminate({0}, "Deploy has Stopped")
                              [] OTHER ->
                                   /\ pc' = "loop"
                                   /\ UNCHANGED <<pstate, diag, exit_code>>
    /\ UNCHANGED <<config, service, previous_deploy, start, test_vars>>

\* main, lines 376-405: fetch the status and act on it
GetDeploy ==
    /\ pc = "get_deploy"
    /\ Len(log) < MaxOps
    /\ \E resp \in Responses(StatusBodies), d \in ReqDelays :
         LET r == get_deploy(resp)
         IN  /\ now' = now + d
             /\ log' = Append(log, Entry(GetDeployRequest(service, deploy.id),
                                         Outcome(resp, ParseDeploy(resp.body), FALSE)))
             /\ wire' = [wire EXCEPT !.status = WireStatus(resp)]
             /\ IF r.tag # "return"
                THEN Abort(r) /\ UNCHANGED <<fetched, branch, pstate, deploy>>
                ELSE LET d2 == r.val.v
                         arm == Classify(d2.status)
                     IN  /\ fetched' = Append(fetched, d2.status)
                         /\ deploy' = NextDeploy(deploy, d2)
                         /\ branch' = arm
                         /\ CASE arm = "success" ->
                                   /\ pstate' = "Succeeded"
                                   /\ Terminate({0}, "Deploy is live")
                              [] arm = "failure" ->
                                   /\ pstate' = "Failed"
                                   /\ Terminate({0}, "Deploy has Stopped")
                              [] OTHER ->
                                   /\ pc' = "loop"
                                   /\ UNCHANGED <<pstate, diag, exit_code>>
    /\ UNCHANGED <<config, service, previous_deploy, start, test_vars>>

Next ==
    \/ ListService
    \/ LatestDeploy
    \/ TriggerDeploy
    \/ Wait
    \/ LoopEntry
    \/ Sleep
    \/ GetDeploy

Spec == Init /\ [][Next]_vars

(***************************************************************************)
(* tests::parse_deploy: from_str on a sample deploy object.  main does not *)
(* run in the test binary.                                                 *)
(***************************************************************************)
TestPayloads ==
    LET plain == {DeployPayload(id, c, st, f) :
                    id \in DeployIds, c \in CommitIds, st \in StatusStrings,
                    f \in {JsonNull, JsonString("t1"), JsonString("")}}
    IN  plain \cup {WithTrigger(p) : p \in plain}

ParseInit ==
    /\ config = [commit |-> None, wait |-> FALSE, timeout |-> 0]
    /\ pc = "test"
    /\ service = NoService
    /\ previous_deploy = None
    /\ deploy = NoDeploy
    /\ now = 0
    /\ start = 0
    /\ log = <<>>
    /\ fetched = <<>>
    /\ branch = "none"
    /\ pstate = "Idle"
    /\ diag = ""
    /\ exit_code = Running
    /\ wire = NoWire
    /\ payload \in TestPayloads
    /\ parsed = <<>>

\* let deploy: Deploy = serde_json::from_str(sample)
ParseDeployTest ==
    /\ pc = "test"
    /\ parsed = <<>>
    /\ parsed' = <<ParseDeploy(payload)>>
    /\ UNCHANGED <<config, pc, service, previous_deploy, deploy, now, start, log,
                   fetched, branch, pstate, diag, exit_code, wire, payload>>

ParseNext == ParseDeployTest

ParseSpec == ParseInit /\ [][ParseNext]_vars

\* the process keeps running: every request returns or fails within the
\* client's timeout and every sleep ends
FairSpec == Spec /\ WF_vars(Next)

TypeOK ==
    /\ config \in Config
    /\ pc \in {"list_service", "latest_deploy", "trigger_deploy", "wait", "loop",
               "sleep", "get_deploy", "done"}
    /\ pstate \in {"Idle", "Polling", "TimedOut", "Succeeded", "Failed"}
    /\ exit_code \in {Running, 0, 1} \cup PanicCodes
    /\ now >= start

(***************************************************************************)
(* Properties.                                                             *)
(***************************************************************************)
IsRequest(e) == e.req.op # "sleep"
StatusFetches == {i \in 1..Len(log) : log[i].req.endpoint = "deploy"}
Last(seq) == seq[Len(seq)]

\* the partition of the statuses the specification states
InProgressClass == {"Created", "BuildInProgress", "UpdateInProgress", "PreDeployInProgress"}
SuccessClass == {"Live"}
FailureClass == {"Deactivated", "BuildFailed", "UpdateFailed", "Canceled", "PreDeployFailed"}

\* C1: a run that ended because the service was not found, because one of
\* the four endpoints answered a non-success HTTP status or a body that does
\* not parse, or because the poll loop timed out, ended with exit code 1.
ErrorExitsWithOne ==
    (/\ pc = "done"
     /\ \/ (Len(log) > 0 /\ Last(log).outcome \in {"http_status", "schema"})
        \/ (Len(log) = 1 /\ Last(log).outcome = "empty")
        \/ pstate = "TimedOut")
    => exit_code = 1

\* C2: with wait set the process exits with code 0 only when the poller
\* stopped in Succeeded; never when it stopped in Failed or TimedOut.
ExitZeroMeansSucceeded ==
    (config.wait /\ pc = "done" /\ exit_code = 0) => pstate = "Succeeded"

\* C3: a failed request (transport, HTTP status or schema) is the last
\* outbound operation of its run, and the run has ended with a non-zero exit
\* status.
NoRetryAfterFailure ==
    \A i \in 1..Len(log) :
        log[i].outcome \in FailureOutcomes =>
            /\ i = Len(log)
            /\ pc = "done"
            /\ exit_code \notin {Running, 0}

\* a status check inside the poll loop failed after an earlier one succeeded
NoRetryAfterFailureWitness ==
    /\ pc = "done"
    /\ Len(fetched) >= 1
    /\ Last(log).req.endpoint = "deploy"
    /\ Last(log).outcome = "schema"
    /\ exit_code = 1

\* C4: a poller that stopped in Succeeded after k status fetches fetched
\* k-1 in-progress statuses and then Live, issued exactly k status requests,
\* and at least (k-1) poll intervals have elapsed; Live is never followed by
\* another fetch.
PollerTermination ==
    /\ \A i \in 1..Len(fetched) : fetched[i] = "Live" => i = Len(fetched)
    /\ pstate = "Succeeded" =>
         LET k == Len(fetched)
         IN  /\ k >= 1
             /\ fetched[k] = "Live"
             /\ \A i \in 1..(k - 1) : fetched[i] \in InProgressClass
             /\ Cardinality(StatusFetches) = k
             /\ pc = "done"
             /\ elapsed >= (k - 1) * PollInterval

\* the stub sequence [BuildInProgress, BuildInProgress, Live]
PollerTerminationWitness ==
    /\ pstate = "Succeeded"
    /\ fetched = <<"BuildInProgress", "BuildInProgress", "Live">>
    /\ elapsed >= 2 * PollInterval

\* the status fetches so far all succeeded and returned in-progress statuses
AllInProgress ==
    /\ \A i \in 1..Len(fetched) : fetched[i] \in InProgressClass
    /\ \A i \in StatusFetches : log[i].outcome = "ok"

\* C5: with a timeout shorter than the poll interval and status fetches that
\* only return in-progress statuses, the poller fetches the status at most
\* once and reaches TimedOut.
PollerTimeout ==
    /\ []((config.timeout < PollInterval /\ AllInProgress)
            => (Cardinality(StatusFetches) <= 1 /\ Len(fetched) <= 1))
    /\ ((pc = "loop" /\ config.timeout < PollInterval)
            ~> ((pstate = "TimedOut" /\ pc = "done" /\ exit_code = 1) \/ ~AllInProgress))

\* timed out after one fetch of an in-progress status
PollerTimeoutWitness ==
    /\ pstate = "TimedOut"
    /\ config.timeout < PollInterval
    /\ Len(fetched) = 1
    /\ AllInProgress
    /\ exit_code = 1

\* C6: when the service lookup returns an empty list the run reports that
\* the service was not found and exits with code 1, and the lookup is the
\* only request of the run.
ServiceNotFound ==
    (Len(log) >= 1 /\ log[1].outcome = "empty") =>
        /\ Len(log) = 1
        /\ pc = "done"
        /\ diag = "Cannot find a service"
        /\ exit_code = 1
        /\ service = NoService

ServiceNotFoundWitness ==
    /\ Len(log) = 1
    /\ log[1].req.endpoint = "services"
    /\ log[1].outcome = "empty"
    /\ exit_code = 1

\* C7: the trigger request carries the commit given on the command line,
\* and none when none was given.
TriggerCarriesCommit ==
    \A i \in 1..Len(log) :
        log[i].req.op = "POST" => log[i].req.commit_id = config.commit

\* C8: without wait no sleep and no status fetch is issued and a run whose
\* trigger succeeded exits with code 0, whatever the timeout; the poller is
\* started, and can time out, only with wait.
PollingOnlyWhenWait ==
    /\ ~config.wait =>
         /\ \A i \in 1..Len(log) :
              log[i].req.op # "sleep" /\ log[i].req.endpoint # "deploy"
         /\ (pc = "done" /\ Len(log) = 3 /\ log[3].outcome = "ok") => exit_code = 0
         /\ pc \notin {"loop", "sleep", "get_deploy"}
    /\ pstate # "Idle" => config.wait

PollingOnlyWhenWaitWitness ==
    /\ ~config.wait
    /\ config.timeout = 0
    /\ pc = "done"
    /\ Len(log) = 3
    /\ log[3].outcome = "ok"
    /\ exit_code = 0

\* C9: a run issues at most one request that is no GET, the POST that
\* creates the deploy; every request after it is a GET of the status of the
\* deploy it created; the step that times out, and every step after it,
\* issues no request.
NeverMutatesDeploy ==
    /\ [](/\ Cardinality({i \in 1..Len(log) : log[i].req.op \notin {"GET", "sleep"}}) <= 1
          /\ \A i \in 1..Len(log) :
               log[i].req.op \notin {"GET", "sleep"} =>
                   /\ log[i].req.op = "POST"
                   /\ log[i].req.endpoint = "deploys"
                   /\ \A j \in (i + 1)..Len(log) :
                        IsRequest(log[j]) =>
                            /\ log[j].req.op = "GET"
                            /\ log[j].req.endpoint = "deploy"
                            /\ log[j].req.service_id = service.id
                            /\ log[j].req.deploy_id = deploy.id)
    /\ [][(pstate = "TimedOut" \/ pstate' = "TimedOut") => log' = log]_vars

NeverMutatesDeployWitness ==
    /\ pstate = "TimedOut"
    /\ Len(fetched) >= 1
    /\ Cardinality(StatusFetches) >= 1

\* C10: every status the poller fetches is one of the ten values and takes
\* exactly the branch of its class: in-progress keeps polling, Live stops in
\* Succeeded, a failure status stops in Failed; the three classes do not
\* overlap and cover the ten values.
ClassificationPartition ==
    /\ \A s \in DeployStatus :
         Cardinality({c \in {LiveArm, InProgressArm, StoppedArm} : s \in c}) = 1
    /\ Len(fetched) > 0 =>
         LET s == Last(fetched)
         IN  /\ s \in DeployStatus
             /\ branch \in {"in_progress", "success", "failure"}
             /\ branch = "in_progress" <=> s \in InProgressClass
             /\ branch = "success" <=> s \in SuccessClass
             /\ branch = "failure" <=> s \in FailureClass
             /\ branch = "in_progress" => pstate \in {"Polling", "TimedOut"}
             /\ branch = "success" => pstate = "Succeeded"
             /\ branch = "failure" => pstate = "Failed"

ClassificationPartitionWitness ==
    /\ Len(fetched) = 2
    /\ fetched[1] = "PreDeployInProgress"
    /\ fetched[2] = "Canceled"
    /\ branch = "failure"
    /\ pstate = "Failed"

\* the ten wire names the specification recognizes, with their variant
RecognizedStatus ==
    {<<"created", "Created">>, <<"build_in_progress", "BuildInProgress">>,
     <<"update_in_progress", "UpdateInProgress">>,
     <<"pre_deploy_in_progress", "PreDeployInProgress">>, <<"live", "Live">>,
     <<"deactivated", "Deactivated">>, <<"build_failed", "BuildFailed">>,
     <<"update_failed", "UpdateFailed">>, <<"canceled", "Canceled">>,
     <<"pre_deploy_failed", "PreDeployFailed">>}
RecognizedNames == {p[1] : p \in RecognizedStatus}

\* the last trigger or status response carried a status string that is none
\* of the ten
UnknownStatusReceived == wire.status # "" /\ wire.status \notin RecognizedNames

\* C11: a trigger or status response with an unrecognized status string is
\* a schema failure that ends the run with a non-zero exit status; its
\* status is not classified, the poller neither goes on polling nor stops in
\* Succeeded or Failed on it.
UnknownStatusAborts ==
    UnknownStatusReceived =>
        /\ Last(log).outcome = "schema"
        /\ pc = "done"
        /\ exit_code \notin {Running, 0}
        /\ pstate \in {"Idle", "Polling"}
        /\ \A i \in 1..Len(fetched) : SnakeCase[fetched[i]] # wire.status
        /\ Len(fetched) = Cardinality({i \in StatusFetches : log[i].outcome = "ok"})
        /\ Last(log).req.endpoint = "deploy" => (exit_code = 1 /\ diag = "Unable to parse json")

\* a status fetch of the poll loop answered the status "queued"
UnknownStatusAbortsWitness ==
    /\ UnknownStatusReceived
    /\ Last(log).req.endpoint = "deploy"
    /\ Len(fetched) >= 1
    /\ pc = "done"
    /\ exit_code = 1

\* C12: from_str on a deploy object with a recognized status string yields
\* a Deploy with the id, the commit id and the finishedAt of the object and
\* the variant of the status string; a null finishedAt is the absent value,
\* never the empty string; a field the struct does not have is ignored.
DeployRoundTrip ==
    (Len(parsed) = 1 /\ payload.status \in RecognizedNames) =>
        LET r == parsed[1]
        IN  /\ r.ok
            /\ r.val.id = payload.id
            /\ r.val.commit.id = payload.commit.id
            /\ <<payload.status, r.val.status>> \in RecognizedStatus
            /\ payload.finishedAt.t = "null" =>
                  (~r.val.finished_at.some /\ r.val.finished_at # Some(""))
            /\ payload.finishedAt.t = "string" =>
                  r.val.finished_at = Some(payload.finishedAt.v)

\* the sample of tests::parse_deploy
DeployRoundTripWitness ==
    /\ Len(parsed) = 1
    /\ payload.status = "build_in_progress"
    /\ payload.finishedAt = JsonNull
    /\ "trigger" \in DOMAIN payload
    /\ parsed[1].ok
    /\ parsed[1].val.status = "BuildInProgress"
    /\ parsed[1].val.finished_at = None

\* C13: the autoDeploy token "yes" makes the resolved service's flag true,
\* "no" makes it false; with any other token the service lookup is a schema
\* failure, the only request of the run, which exits with code 1.
AutoDeployTokens ==
    /\ wire.autoDeploy = "yes" =>
         (log[1].outcome = "ok" /\ service # NoService /\ service.auto_deploy = TRUE)
    /\ wire.autoDeploy = "no" =>
         (log[1].outcome = "ok" /\ service # NoService /\ service.auto_deploy = FALSE)
    /\ wire.autoDeploy \notin {"", "yes", "no"} =>
         /\ Len(log) = 1
         /\ log[1].outcome = "schema"
         /\ service = NoService
         /\ pc = "done"
         /\ diag = "Unable to parse json"
         /\ exit_code = 1

AutoDeployTokensWitness ==
    /\ wire.autoDeploy = "maybe"
    /\ Len(log) = 1
    /\ pc = "done"
    /\ exit_code = 1

TerminalStates == {"TimedOut", "Succeeded", "Failed"}
Posts == {i \in 1..Len(log) : log[i].req.op = "POST"}

\* C14: the poller starts in Polling; from Polling the timeout test at loop
\* entry leads to TimedOut exactly when the elapsed time exceeds the
\* timeout, a fetched Live leads to Succeeded, a fetched failure status to
\* Failed, a fetched in-progress status back to Polling; once in TimedOut,
\* Succeeded or Failed the poller state never changes and no sleep or fetch
\* follows.
PollerStateMachine ==
    [][/\ (pstate = "Idle" /\ pstate' # "Idle") => (pstate' = "Polling" /\ pc' = "loop")
       /\ pstate = "Polling" =>
            /\ pstate' \in {"Polling"} \cup TerminalStates
            /\ pc = "loop" => (pstate' = "TimedOut" <=> elapsed' > config.timeout)
            /\ pstate' = "TimedOut" => pc = "loop"
            /\ pstate' \in {"Succeeded", "Failed"} => fetched' # fetched
            /\ fetched' # fetched =>
                 /\ Last(fetched') \in SuccessClass => pstate' = "Succeeded"
                 /\ Last(fetched') \in FailureClass => pstate' = "Failed"
                 /\ Last(fetched') \in InProgressClass => (pstate' = "Polling" /\ pc' = "loop")
       /\ pstate \in TerminalStates =>
            (pstate' = pstate /\ log' = log /\ fetched' = fetched /\ pc = "done" /\ pc' = pc)
      ]_vars

PollerStateMachineWitness ==
    /\ pstate = "TimedOut"
    /\ Len(fetched) = 2
    /\ pc = "done"

\* C15 as stated: the outbound operations are a prefix of resolve, trigger,
\* then (sleep, fetch status) pairs.
ResolveTriggerPoll ==
    \A i \in 1..Len(log) :
        /\ i = 1 => (log[i].req.op = "GET" /\ log[i].req.endpoint = "services")
        /\ i = 2 => (log[i].req.op = "POST" /\ log[i].req.endpoint = "deploys")
        /\ (i >= 3 /\ i % 2 = 1) => log[i].req.op = "sleep"
        /\ (i >= 3 /\ i % 2 = 0) => (log[i].req.op = "GET" /\ log[i].req.endpoint = "deploy")

\* C15, amended: the outbound operations are a prefix of resolve, the lookup
\* of the latest deploy, trigger, then (sleep, fetch status) pairs, one
\* operation at a time; nothing follows resolve unless it returned a
\* Service; every sleep lasts at least the poll interval.
ResolveLatestTriggerPoll ==
    /\ [](/\ \A i \in 1..Len(log) :
              /\ i = 1 => (log[i].req.op = "GET" /\ log[i].req.endpoint = "services")
              /\ i = 2 => (log[i].req.op = "GET" /\ log[i].req.endpoint = "deploys")
              /\ i = 3 => (log[i].req.op = "POST" /\ log[i].req.endpoint = "deploys")
              /\ (i >= 4 /\ i % 2 = 0) => log[i].req.op = "sleep"
              /\ (i >= 4 /\ i % 2 = 1) =>
                    (log[i].req.op = "GET" /\ log[i].req.endpoint = "deploy")
              /\ i >= 2 => log[i - 1].outcome \in {"ok", "empty"}
          /\ Len(log) >= 2 => (log[1].outcome = "ok" /\ wire.service_id # ""))
    /\ [][/\ Len(log') <= Len(log) + 1
           /\ \A i \in 1..Len(log) : log'[i] = log[i]
           /\ (Len(log') > Len(log) /\ Last(log').req.op = "sleep") =>
                 now' >= now + PollInterval
          ]_vars

ResolveLatestTriggerPollWitness ==
    /\ Len(log) = 7
    /\ log[2].req.endpoint = "deploys" /\ log[2].req.op = "GET"
    /\ log[7].req.endpoint = "deploy"
    /\ log[7].outcome = "ok"

\* C16: every status fetch carries the service id the resolver received and
\* the deploy id the trigger response carried.
StableIdentifiers ==
    \A i \in StatusFetches :
        /\ log[i].req.service_id = wire.service_id
        /\ log[i].req.deploy_id = wire.deploy_id
        /\ wire.service_id # ""
        /\ wire.deploy_id # ""

StableIdentifiersWitness ==
    /\ Cardinality(StatusFetches) = 3
    /\ wire.deploy_id = "dep-1"
    /\ wire.service_id = "srv-2"
    /\ previous_deploy = Some("BuildFailed")
    /\ \A i \in StatusFetches : log[i].req.deploy_id = "dep-1"

\* C17: a status that was fetched is always acted on by its class, whatever
\* the elapsed time: Live gives Succeeded, a failure status gives Failed;
\* the poller times out only in the timeout test at loop entry, which
\* issues no request, and only before the first fetch or after a fetch of
\* an in-progress status.
TimeoutNeverPreempts ==
    [][/\ (Len(log') > Len(log) /\ Last(log').req.endpoint = "deploy"
           /\ Last(log').outcome = "ok") =>
             /\ Len(fetched') = Len(fetched) + 1
             /\ <<wire'.status, Last(fetched')>> \in RecognizedStatus
             /\ Last(fetched') \in SuccessClass => pstate' = "Succeeded"
             /\ Last(fetched') \in FailureClass => pstate' = "Failed"
             /\ Last(fetched') \in InProgressClass => pstate' = "Polling"
       /\ (pstate' = "TimedOut" /\ pstate # "TimedOut") =>
             /\ pc = "loop"
             /\ log' = log
             /\ fetched' = fetched
             /\ fetched = <<>> \/ Last(fetched) \in InProgressClass
      ]_vars

\* a failure status fetched after the timeout has passed
TimeoutNeverPreemptsWitness ==
    /\ pstate = "Failed"
    /\ Len(fetched) = 2
    /\ elapsed > config.timeout

\* C18: the number of status fetches of a run is at most
\* floor(timeout / interval) + 1, the elapsed time being counted from the
\* entry of the poll loop.
FetchBound ==
    /\ Cardinality(StatusFetches) <= (config.timeout \div PollInterval) + 1
    /\ (0 < config.timeout /\ config.timeout < PollInterval) => Cardinality(StatusFetches) <= 1
    /\ pstate # "Idle" => (elapsed <= now /\ elapsed >= PollInterval * Cardinality(StatusFetches))

\* the bound is reached, and the trigger took time that is not counted
FetchBoundWitness ==
    /\ config.timeout = MaxTimeout
    /\ Cardinality(StatusFetches) = (MaxTimeout \div PollInterval) + 1
    /\ pstate = "TimedOut"
    /\ elapsed < now

\* C19: when the lookup of the latest deploy answers a non-success HTTP
\* status or a body that does not parse, the run ends there with exit code
\* 1 and no POST; when it answers an empty list or a deploy, whatever its
\* status, the run goes on to the trigger and issues it exactly once.
LatestDeployGates ==
    Len(log) >= 2 =>
        /\ log[2].outcome \in {"http_status", "schema"} =>
              (Len(log) = 2 /\ pc = "done" /\ exit_code = 1 /\ Posts = {})
        /\ log[2].outcome \in {"ok", "empty"} =>
              /\ pc # "done" \/ Len(log) >= 3
              /\ pc # "trigger_deploy" => Posts = {3}
              /\ pc = "trigger_deploy" => Posts = {}
              /\ log[2].outcome = "empty" <=> previous_deploy = None

LatestDeployGatesWitness ==
    /\ previous_deploy = Some("BuildFailed")
    /\ Posts = {3}
    /\ log[3].outcome = "ok"
    /\ pc = "wait"
====
